---- MODULE Spec2Model ----
(***************************************************************************)
(* The persistent image-metadata cache of the image manager                *)
(* (src-tauri/src/metadata_cache.rs) and its callers in                    *)
(* src-tauri/src/lib.rs.                                                   *)
(*                                                                         *)
(* The table image_metadata is a sequence of rows kept in rowid order: a   *)
(* row of a rowid table gets a rowid above every rowid in use, so an       *)
(* inserted row is appended.  last_accessed is the RFC 3339 text of        *)
(* Utc::now(); for UTC instants that text compares, as TEXT, in the order  *)
(* of the instants, so it is modelled by the instant itself, a number.     *)
(* The wall clock may stand still between two readings (ties) and is taken *)
(* not to step backwards.  Every SQL statement may fail; a failed          *)
(* statement changes nothing (statement atomicity).                        *)
(***************************************************************************)
EXTENDS Integers, Sequences, FiniteSets, TLC

(***************************************************************************)
(* Bounds of the model.                                                    *)
(***************************************************************************)
MaxCapacity == 2
MaxClock == 2
MaxInstant == 1
MaxModified == 2
WordBits == 3
MaxTotal == 3

\* File paths, fingerprints (formatted modification times) and decoded
\* metadata the callers pass.
Paths == {"A", "B", "C"}
Fingerprints == {"t1", "t2"}
Metas == {[width |-> 640, height |-> 480, file_size |-> 1000],
          [width |-> 800, height |-> 600, file_size |-> 2000]}
\* The metadata where one is enough.
OneMeta == [width |-> 640, height |-> 480, file_size |-> 1000]
\* run() builds the one cache of the program with a positive capacity.
Capacities == 1..MaxCapacity

VARIABLES
    image_metadata,  \* the rows of table image_metadata, in rowid order
    max_entries,     \* MetadataCache.max_entries
    clock,           \* the instant Utc::now() returns
    last,            \* the calls of the caller that ran last, in order, with
                     \* their arguments and results
    written,         \* per path, what the latest set that returned Ok wrote
    mutex,           \* the thread holding the lock of conn, or NoThread
    pc,              \* per thread, where it stands
    frame,           \* per thread, the arguments and locals of its call
    loaded,          \* the result of the read_image_file that returned last
    is_exiting,      \* AppState.is_exiting
    windows,         \* whether the windows of the application are open
    exit,            \* how far exit_app has come and what it has seen
    files,           \* per path, the versions of the file on disk, oldest
                     \* first: modification time and decoded metadata
    recent_sessions, \* AppState.recent_sessions, most recent first
    page             \* the latest call of browse_folder_paginated: its
                     \* arguments, the folder and what it returned

vars == <<image_metadata, max_entries, clock, last, written, mutex, pc, frame,
          loaded, is_exiting, windows, exit, files, recent_sessions, page>>

appvars == <<is_exiting, windows, exit, files, recent_sessions, page>>

seqvars == <<last, written>>
threadvars == <<mutex, pc, frame, loaded>>

Threads == {"h1", "h2"}
NoThread == "none"

(***************************************************************************)
(* Values returned by the cache.                                           *)
(***************************************************************************)
ErrResult == [tag |-> "Err"]
OkResult == [tag |-> "Ok"]
NoneResult == [tag |-> "None"]
\* The columns of the row read in the wrong order.
SomeResultSwapped(row) ==
    [tag |-> "Some", width |-> row.height, height |-> row.width,
     file_size |-> row.file_size]

SomeResult(row) ==
    [tag |-> "Some", width |-> row.width, height |-> row.height,
     file_size |-> row.file_size]
StatsResult(n, m) == [tag |-> "Stats", entry_count |-> n, max_entries |-> m]

(***************************************************************************)
(* SQL statements on a sequence of rows.                                   *)
(***************************************************************************)
RowIndexes(rows) == 1..Len(rows)

Matching(rows, file_path) ==
    {i \in RowIndexes(rows) : rows[i].file_path = file_path}

StoredPaths(rows) == {rows[i].file_path : i \in RowIndexes(rows)}

\* A table created anew whenever the database is opened.
CreateTable(rows) == <<>>

\* Connection::open(db_path) and CREATE TABLE IF NOT EXISTS image_metadata:
\* the database file outlives the process, every statement that returned
\* is in it, and a table that exists is kept as it is.
CreateTableIfNotExists(rows) == rows

\* SELECT width, height, file_size, last_modified ... WHERE file_path = ?1
\* through query_row(..).optional(): the first matching row, if any.
SelectRow(rows, file_path) ==
    IF Matching(rows, file_path) = {} THEN NoneResult
    ELSE LET i == CHOOSE k \in Matching(rows, file_path) :
                      \A j \in Matching(rows, file_path) : k <= j
         IN [tag |-> "Row", row |-> rows[i]]

\* UPDATE image_metadata SET last_accessed = ?1, without its WHERE.
UpdateEveryRow(rows, now, file_path) ==
    [i \in RowIndexes(rows) |-> [rows[i] EXCEPT !.last_accessed = now]]

\* A hit that leaves last_accessed as it was.
UpdateNothing(rows, now, file_path) == rows

\* UPDATE image_metadata SET last_accessed = ?1 WHERE file_path = ?2
UpdateLastAccessed(rows, now, file_path) ==
    [i \in RowIndexes(rows) |->
        IF rows[i].file_path = file_path
        THEN [rows[i] EXCEPT !.last_accessed = now]
        ELSE rows[i]]

\* DELETE FROM image_metadata WHERE file_path = ?1
DeleteRow(rows, file_path) ==
    SelectSeq(rows, LAMBDA r : r.file_path # file_path)

\* INSERT OR IGNORE: the row in conflict is kept.
InsertOrIgnore(rows, file_path, last_modified, width, height, file_size, now) ==
    IF file_path \in StoredPaths(rows) THEN rows
    ELSE Append(rows,
                [file_path |-> file_path, last_modified |-> last_modified,
                 width |-> width, height |-> height, file_size |-> file_size,
                 last_accessed |-> now])

\* A plain INSERT into a table without its PRIMARY KEY.
InsertOnly(rows, file_path, last_modified, width, height, file_size, now) ==
    Append(rows,
           [file_path |-> file_path, last_modified |-> last_modified,
            width |-> width, height |-> height, file_size |-> file_size,
            last_accessed |-> now])

\* INSERT OR REPLACE INTO image_metadata (...) VALUES (?1 .. ?6): file_path is
\* the PRIMARY KEY, so the row in conflict is deleted and the new row is
\* added with a fresh rowid.
InsertOrReplace(rows, file_path, last_modified, width, height, file_size, now) ==
    Append(DeleteRow(rows, file_path),
           [file_path |-> file_path, last_modified |-> last_modified,
            width |-> width, height |-> height, file_size |-> file_size,
            last_accessed |-> now])

\* A count that is one too high.
CountRowsAndOne(rows) == Len(rows) + 1

\* SELECT COUNT(*) FROM image_metadata
CountRows(rows) == Len(rows)

\* ORDER BY last_accessed DESC.
LruRankNewestFirst(rows, i) ==
    Cardinality({j \in RowIndexes(rows) :
        \/ rows[j].last_accessed > rows[i].last_accessed
        \/ rows[j].last_accessed = rows[i].last_accessed /\ j < i})

\* Equal last_accessed read from the highest rowid down.
LruRankTiesNewestFirst(rows, i) ==
    Cardinality({j \in RowIndexes(rows) :
        \/ rows[j].last_accessed < rows[i].last_accessed
        \/ rows[j].last_accessed = rows[i].last_accessed /\ j > i})

\* Position of row i in ORDER BY last_accessed ASC, read through the index
\* idx_last_accessed: by last_accessed, then by rowid.
LruRank(rows, i) ==
    Cardinality({j \in RowIndexes(rows) :
        \/ rows[j].last_accessed < rows[i].last_accessed
        \/ rows[j].last_accessed = rows[i].last_accessed /\ j < i})

\* SELECT file_path FROM image_metadata ORDER BY last_accessed ASC LIMIT ?1
LruVictims(rows, limit) ==
    {rows[i].file_path : i \in {k \in RowIndexes(rows) : LruRank(rows, k) < limit}}

\* DELETE FROM image_metadata WHERE file_path IN (SELECT ... LIMIT ?1)
DeleteLru(rows, limit) ==
    LET victims == LruVictims(rows, limit) IN
    SelectSeq(rows, LAMBDA r : r.file_path \notin victims)

(***************************************************************************)
(* The operations of MetadataCache, each run to its return under the       *)
(* connection lock.  fail names the statement that fails, if one does.     *)
(***************************************************************************)
GetFailures == {"none", "query", "execute"}
SetFailures == {"none", "insert", "count", "evict"}
StatementFailures == {"none", "statement"}

\* A get that, on a hit, trims the table to the record it has found.
get_trim_on_hit(rows, file_path, last_modified, now, fail) ==
    IF fail = "query" THEN [rows |-> rows, res |-> ErrResult]
    ELSE
        LET result == SelectRow(rows, file_path) IN
        IF result.tag = "Row" THEN
            IF fail = "execute" THEN [rows |-> rows, res |-> ErrResult]
            ELSE IF result.row.last_modified = last_modified
            THEN [rows |-> SelectSeq(UpdateLastAccessed(rows, now, file_path),
                                     LAMBDA r : r.file_path = file_path),
                  res |-> SomeResult(result.row)]
            ELSE [rows |-> DeleteRow(rows, file_path), res |-> NoneResult]
        ELSE [rows |-> rows, res |-> NoneResult]

\* A get that touches last_accessed before it compares the fingerprints.
get_touch_first(rows, file_path, last_modified, now, fail) ==
    IF fail = "query" THEN [rows |-> rows, res |-> ErrResult]
    ELSE
        LET result == SelectRow(rows, file_path)
            touched == UpdateLastAccessed(rows, now, file_path)
        IN
        IF result.tag = "Row" THEN
            IF result.row.last_modified = last_modified THEN
                [rows |-> touched, res |-> SomeResult(result.row)]
            ELSE
                IF fail = "execute" THEN [rows |-> touched, res |-> ErrResult]
                ELSE [rows |-> DeleteRow(rows, file_path), res |-> NoneResult]
        ELSE [rows |-> rows, res |-> NoneResult]

\* A get whose query_row is not made optional: no row is an error.
getNotOptional(rows, file_path, last_modified, now, fail) ==
    IF fail = "query" THEN [rows |-> rows, res |-> ErrResult]
    ELSE
        LET result == SelectRow(rows, file_path) IN
        IF result.tag = "Row" THEN
            IF fail = "execute" THEN [rows |-> rows, res |-> ErrResult]
            ELSE IF result.row.last_modified = last_modified
            THEN [rows |-> UpdateLastAccessed(rows, now, file_path),
                  res |-> SomeResult(result.row)]
            ELSE [rows |-> DeleteRow(rows, file_path), res |-> NoneResult]
        ELSE [rows |-> rows, res |-> ErrResult]

\* A get that answers None for a stale record and leaves it stored.
getKeepsStale(rows, file_path, last_modified, now, fail) ==
    IF fail = "query" THEN [rows |-> rows, res |-> ErrResult]
    ELSE
        LET result == SelectRow(rows, file_path) IN
        IF result.tag = "Row" /\ result.row.last_modified = last_modified THEN
            IF fail = "execute" THEN [rows |-> rows, res |-> ErrResult]
            ELSE [rows |-> UpdateLastAccessed(rows, now, file_path),
                  res |-> SomeResult(result.row)]
        ELSE [rows |-> rows, res |-> NoneResult]

get(rows, file_path, last_modified, now, fail) ==
    IF fail = "query" THEN [rows |-> rows, res |-> ErrResult]
    ELSE
        LET result == SelectRow(rows, file_path) IN
        IF result.tag = "Row" THEN
            IF result.row.last_modified = last_modified THEN
                IF fail = "execute" THEN [rows |-> rows, res |-> ErrResult]
                ELSE [rows |-> UpdateLastAccessed(rows, now, file_path),
                      res |-> SomeResult(result.row)]
            ELSE
                IF fail = "execute" THEN [rows |-> rows, res |-> ErrResult]
                ELSE [rows |-> DeleteRow(rows, file_path), res |-> NoneResult]
        ELSE [rows |-> rows, res |-> NoneResult]

\* An eviction whose DELETE is run with its result dropped.
evict_unchecked(rows, capacity, fail) ==
    IF fail = "count" THEN [rows |-> rows, res |-> ErrResult]
    ELSE
        LET count == CountRows(rows) IN
        IF count > capacity THEN
            LET to_delete == count - capacity IN
            IF fail = "evict" THEN [rows |-> rows, res |-> OkResult]
            ELSE [rows |-> DeleteLru(rows, to_delete), res |-> OkResult]
        ELSE [rows |-> rows, res |-> OkResult]

\* An eviction that makes room for one more record.
evict_one_more(rows, capacity, fail) ==
    IF fail = "count" THEN [rows |-> rows, res |-> ErrResult]
    ELSE
        LET count == CountRows(rows) IN
        IF count >= capacity THEN
            LET to_delete == count - capacity + 1 IN
            IF fail = "evict" THEN [rows |-> rows, res |-> ErrResult]
            ELSE [rows |-> DeleteLru(rows, to_delete), res |-> OkResult]
        ELSE [rows |-> rows, res |-> OkResult]

evict_if_needed(rows, capacity, fail) ==
    IF fail = "count" THEN [rows |-> rows, res |-> ErrResult]
    ELSE
        LET count == CountRows(rows) IN
        IF count > capacity THEN
            LET to_delete == count - capacity IN
            IF fail = "evict" THEN [rows |-> rows, res |-> ErrResult]
            ELSE [rows |-> DeleteLru(rows, to_delete), res |-> OkResult]
        ELSE [rows |-> rows, res |-> OkResult]

set(rows, capacity, file_path, last_modified, width, height, file_size, now, fail) ==
    IF fail = "insert" THEN [rows |-> rows, res |-> ErrResult]
    ELSE evict_if_needed(
            InsertOrReplace(rows, file_path, last_modified, width, height,
                            file_size, now),
            capacity, fail)

new(rows, fail) ==
    IF fail = "statement" THEN [rows |-> rows, res |-> ErrResult]
    ELSE [rows |-> CreateTableIfNotExists(rows), res |-> OkResult]

get_stats(rows, capacity, fail) ==
    IF fail = "statement" THEN [rows |-> rows, res |-> ErrResult]
    ELSE [rows |-> rows, res |-> StatsResult(CountRows(rows), capacity)]

\* A clear that deletes the least recently used record only.
clear_oldest(rows, fail) ==
    IF fail = "statement" THEN [rows |-> rows, res |-> ErrResult]
    ELSE [rows |-> DeleteLru(rows, 1), res |-> OkResult]

clear(rows, fail) ==
    IF fail = "statement" THEN [rows |-> rows, res |-> ErrResult]
    ELSE [rows |-> <<>>, res |-> OkResult]

flush(rows, fail) ==
    IF fail = "statement" THEN [rows |-> rows, res |-> ErrResult]
    ELSE [rows |-> rows, res |-> OkResult]

(***************************************************************************)
(* Records of calls, kept in last: the arguments, the instant read from    *)
(* Utc::now(), the result, and what the call found and removed.            *)
(***************************************************************************)
GetCall(rows, file_path, last_modified, now, out) ==
    [op |-> "get", file_path |-> file_path, last_modified |-> last_modified,
     at |-> now, res |-> out.res, found |-> SelectRow(rows, file_path)]

SetCall(rows, file_path, last_modified, meta, now, out) ==
    [op |-> "set", file_path |-> file_path, last_modified |-> last_modified,
     width |-> meta.width, height |-> meta.height,
     file_size |-> meta.file_size, at |-> now, res |-> out.res,
     replaced |-> file_path \in StoredPaths(rows),
     evicted |-> IF out.rows = rows THEN {}
                 ELSE (StoredPaths(rows) \cup {file_path}) \ StoredPaths(out.rows)]

NothingWritten == [tag |-> "None"]

\* A thread that is in no call, and no load returned yet.
NoFrame == [op |-> "none"]
NotLoaded == [status |-> "none"]

\* exit_app has not been called.
NotExiting == [pc |-> "idle", stats |-> "none", flush |-> "none"]

WrittenBy(meta) == [tag |-> "Some", width |-> meta.width, height |-> meta.height]

(***************************************************************************)
(* One store used by one caller at a time: every call runs to its return.  *)
(***************************************************************************)
InitCache ==
    /\ image_metadata = <<>>
    /\ max_entries \in Capacities
    /\ clock = 0
    /\ last = <<>>
    /\ written = [p \in Paths |-> NothingWritten]
    /\ mutex = NoThread
    /\ pc = [t \in Threads |-> "idle"]
    /\ frame = [t \in Threads |-> NoFrame]
    /\ loaded = NotLoaded
    /\ is_exiting = FALSE
    /\ windows = "open"
    /\ exit = NotExiting
    /\ files = [p \in Paths |-> <<[modified |-> 0, meta |-> OneMeta]>>]

\* browse_folder_paginated has not been called.
NoPage == [outcome |-> "none"]

\* The first start: no recent-sessions.json yet, so load_recent_sessions
\* returns an empty list.
Init ==
    /\ InitCache
    /\ recent_sessions = <<>>
    /\ page = NoPage

\* A clock that is also set back.
TickEitherWay(max) ==
    /\ clock' \in {clock - 1, clock + 1} \cap (0..max)
    /\ UNCHANGED <<image_metadata, max_entries, last, written, threadvars, appvars>>

\* Time passes between two readings of Utc::now().
Tick(max) ==
    /\ clock < max
    /\ clock' = clock + 1
    /\ UNCHANGED <<image_metadata, max_entries, last, written, threadvars, appvars>>

CallGet(file_path, last_modified, fail) ==
    LET out == get(image_metadata, file_path, last_modified, clock, fail) IN
    /\ image_metadata' = out.rows
    /\ last' = <<GetCall(image_metadata, file_path, last_modified, clock, out)>>
    /\ UNCHANGED <<max_entries, clock, written, threadvars, appvars>>

\* track: whether written follows the sets that return Ok.
CallSet(file_path, last_modified, meta, fail, track) ==
    LET out == set(image_metadata, max_entries, file_path, last_modified,
                   meta.width, meta.height, meta.file_size, clock, fail)
    IN
    /\ image_metadata' = out.rows
    /\ last' = <<SetCall(image_metadata, file_path, last_modified, meta, clock, out)>>
    /\ written' = IF track /\ out.res = OkResult
                  THEN [written EXCEPT ![file_path] = WrittenBy(meta)]
                  ELSE written
    /\ UNCHANGED <<max_entries, clock, threadvars, appvars>>

CallGetStats(fail) ==
    LET out == get_stats(image_metadata, max_entries, fail) IN
    /\ image_metadata' = out.rows
    /\ last' = <<[op |-> "get_stats", res |-> out.res]>>
    /\ UNCHANGED <<max_entries, clock, written, threadvars, appvars>>

CallClear(fail) ==
    LET out == clear(image_metadata, fail) IN
    /\ image_metadata' = out.rows
    /\ last' = <<[op |-> "clear", res |-> out.res]>>
    /\ UNCHANGED <<max_entries, clock, written, threadvars, appvars>>

CallFlush(fail) ==
    LET out == flush(image_metadata, fail) IN
    /\ image_metadata' = out.rows
    /\ last' = <<[op |-> "flush", res |-> out.res]>>
    /\ UNCHANGED <<max_entries, clock, written, threadvars, appvars>>

\* A caller that calls set(p, f1, ..), get(p, f2) and get(p, f1) one after
\* the other with nothing in between and no statement failing; time may pass
\* before each get.
CallSetGetGet(file_path, f1, meta, f2, d2, d3) ==
    LET now2 == clock + d2
        now3 == now2 + d3
        s    == set(image_metadata, max_entries, file_path, f1, meta.width,
                    meta.height, meta.file_size, clock, "none")
        g2   == get(s.rows, file_path, f2, now2, "none")
        g3   == get(g2.rows, file_path, f1, now3, "none")
    IN
    /\ now3 <= MaxInstant
    /\ image_metadata' = g3.rows
    /\ clock' = now3
    /\ last' = <<SetCall(image_metadata, file_path, f1, meta, clock, s),
                 GetCall(s.rows, file_path, f2, now2, g2),
                 GetCall(g2.rows, file_path, f1, now3, g3)>>
    /\ UNCHANGED <<max_entries, written, threadvars, appvars>>

\* A caller that calls set(x), set(y), get(x) and set(z) one after the other
\* with nothing in between and no statement failing; time may pass before
\* each call after the first.
CallSetSetGetSet(x, y, z, f, meta, d2, d3, d4) ==
    LET now2 == clock + d2
        now3 == now2 + d3
        now4 == now3 + d4
        s1 == set(image_metadata, max_entries, x, f, meta.width, meta.height,
                  meta.file_size, clock, "none")
        s2 == set(s1.rows, max_entries, y, f, meta.width, meta.height,
                  meta.file_size, now2, "none")
        g3 == get(s2.rows, x, f, now3, "none")
        s4 == set(g3.rows, max_entries, z, f, meta.width, meta.height,
                  meta.file_size, now4, "none")
    IN
    /\ now4 <= MaxClock
    /\ image_metadata' = s4.rows
    /\ clock' = now4
    /\ last' = <<SetCall(image_metadata, x, f, meta, clock, s1),
                 SetCall(s1.rows, y, f, meta, now2, s2),
                 GetCall(s2.rows, x, f, now3, g3),
                 SetCall(g3.rows, z, f, meta, now4, s4)>>
    /\ UNCHANGED <<max_entries, written, threadvars, appvars>>

\* The process is terminated and started again: MetadataCache::new opens
\* the database file of the terminated process.
Restart(fail) ==
    LET out == new(image_metadata, fail) IN
    /\ image_metadata' = out.rows
    /\ last' = <<[op |-> "new", res |-> out.res]>>
    /\ UNCHANGED <<max_entries, clock, written, threadvars, appvars>>

\* A caller that calls set(p, f, ..) and flush(); then the process is
\* terminated and started again, and get(p, f) is called on the new store.
\* No statement of set, new and get fails; time may pass before the get.
CallSetFlushNewGet(file_path, f, meta, fail, d) ==
    LET now4 == clock + d
        s == set(image_metadata, max_entries, file_path, f, meta.width,
                 meta.height, meta.file_size, clock, "none")
        c == flush(s.rows, fail)
        n == new(c.rows, "none")
        g == get(n.rows, file_path, f, now4, "none")
    IN
    /\ now4 <= MaxInstant
    /\ image_metadata' = g.rows
    /\ clock' = now4
    /\ last' = <<SetCall(image_metadata, file_path, f, meta, clock, s),
                 [op |-> "flush", res |-> c.res],
                 [op |-> "new", res |-> n.res],
                 GetCall(n.rows, file_path, f, now4, g)>>
    /\ UNCHANGED <<max_entries, written, threadvars, appvars>>

Calls(paths, fingerprints, metas, track) ==
    \/ \E p \in paths, f \in fingerprints, fail \in GetFailures :
          CallGet(p, f, fail)
    \/ \E p \in paths, f \in fingerprints, m \in metas, fail \in SetFailures :
          CallSet(p, f, m, fail, track)
    \/ \E fail \in StatementFailures : CallGetStats(fail)
    \/ \E fail \in StatementFailures : CallClear(fail)
    \/ \E fail \in StatementFailures : CallFlush(fail)

\* Two paths with every fingerprint and metadata.
Next ==
    \/ Tick(MaxInstant)
    \/ Calls({"A", "B"}, Fingerprints, Metas, FALSE)
    \/ \E p \in {"A", "B"}, f1, f2 \in Fingerprints, m \in Metas,
          d2, d3 \in {0, 1} :
          CallSetGetGet(p, f1, m, f2, d2, d3)

Spec == Init /\ [][Next]_vars


NextLru ==
    \/ Tick(MaxClock)
    \/ Calls(Paths, {"t1"}, {OneMeta}, FALSE)
    \/ \E x, y, z \in Paths, d2, d3, d4 \in {0, 1} :
          /\ x # y /\ y # z /\ x # z
          /\ CallSetSetGetSet(x, y, z, "t1", OneMeta, d2, d3, d4)

SpecLru == Init /\ [][NextLru]_vars

\* One path with every fingerprint and metadata, written kept up to date.
NextWritten ==
    \/ Tick(MaxInstant)
    \/ Calls({"A"}, Fingerprints, Metas, TRUE)

SpecWritten == Init /\ [][NextWritten]_vars

\* A caller that calls set(p, f1, m1), set(p, f2, m2) and get(p, f3) one
\* after the other with nothing in between and no statement failing; time
\* may pass between the two sets.
CallSetSetGet(file_path, f1, m1, f2, m2, f3, d) ==
    LET now2 == clock + d
        s1 == set(image_metadata, max_entries, file_path, f1, m1.width,
                  m1.height, m1.file_size, clock, "none")
        s2 == set(s1.rows, max_entries, file_path, f2, m2.width, m2.height,
                  m2.file_size, now2, "none")
        g3 == get(s2.rows, file_path, f3, now2, "none")
    IN
    /\ now2 <= MaxInstant
    /\ image_metadata' = g3.rows
    /\ clock' = now2
    /\ last' = <<SetCall(image_metadata, file_path, f1, m1, clock, s1),
                 SetCall(s1.rows, file_path, f2, m2, now2, s2),
                 GetCall(s2.rows, file_path, f3, now2, g3)>>
    /\ UNCHANGED <<max_entries, written, threadvars, appvars>>

\* Two paths, the second set of a path following the first at once.
NextReplace ==
    \/ Tick(MaxInstant)
    \/ Calls({"A", "B"}, {"t1"}, {OneMeta}, FALSE)
    \/ \E p \in {"A", "B"}, f1, f2, f3 \in Fingerprints, m1, m2 \in Metas,
          d \in {0, 1} :
          CallSetSetGet(p, f1, m1, f2, m2, f3, d)

SpecReplace == Init /\ [][NextReplace]_vars

\* Two paths with one fingerprint, and the process started again.
NextRestart ==
    \/ Tick(MaxInstant)
    \/ Calls({"A", "B"}, {"t1"}, Metas, FALSE)
    \/ \E fail \in StatementFailures : Restart(fail)
    \/ \E p \in {"A", "B"}, m \in Metas, fail \in StatementFailures,
          d \in {0, 1} :
          CallSetFlushNewGet(p, "t1", m, fail, d)

SpecRestart == Init /\ [][NextRestart]_vars

(***************************************************************************)
(* Concurrent callers: the request handlers run on threads h1 and h2.      *)
(* Each cache operation locks conn on entry, runs its statements one by    *)
(* one and unlocks when it returns; read_image_file calls get and, after a *)
(* miss, decodes the file and calls set.                                   *)
(***************************************************************************)
TwoPaths == {"A", "B"}
\* The file as it is on disk now.
CurrentFile(path) == files[path][Len(files[path])]

\* DateTime::<Utc>::from(time).format("%Y-%m-%d %H:%M:%S UTC"): the
\* modification time cut to its second.  Modification times are counted in
\* half seconds: 0 and 1 lie in the second "t1", later ones in "t2".
FormatModified(modified) == IF modified \div 2 = 0 THEN "t1" ELSE "t2"

FileModified(path) == FormatModified(CurrentFile(path).modified)
FileMeta(path) == CurrentFile(path).meta

\* Another program writes the file: new contents, a later modification
\* time.
ModifyFile(path, meta) ==
    /\ CurrentFile(path).modified < MaxModified
    /\ files' = [files EXCEPT ![path] =
                    Append(@, [modified |-> CurrentFile(path).modified + 1,
                               meta |-> meta])]
    /\ UNCHANGED <<image_metadata, max_entries, clock, seqvars, threadvars,
                   is_exiting, windows, exit, recent_sessions, page>>

Frame(op, caller, file_path, last_modified, meta) ==
    [op |-> op, caller |-> caller, file_path |-> file_path,
     last_modified |-> last_modified, meta |-> meta]

FirstStatement(op) ==
    CASE op = "get" -> "get_query"
      [] op = "set" -> "set_insert"
      [] op = "get_stats" -> "stats_count"
      [] op = "clear" -> "clear_delete"
      [] op = "flush" -> "flush_checkpoint"

Inside(t) ==
    pc[t] \in {"get_query", "get_update", "get_delete", "set_insert",
               "evict_count", "evict_delete", "stats_count", "clear_delete",
               "flush_checkpoint"}

\* A handler calls an operation of the cache.
Call(t, op, file_path, last_modified, meta) ==
    /\ pc[t] = "idle"
    /\ pc' = [pc EXCEPT ![t] = "lock"]
    /\ frame' = [frame EXCEPT ![t] = Frame(op, "api", file_path, last_modified, meta)]
    /\ UNCHANGED <<image_metadata, max_entries, clock, mutex, loaded, seqvars, appvars>>

\* An entry that does not wait for the lock.
LockNotAwaited(t) ==
    /\ pc[t] = "lock"
    /\ mutex' = t
    /\ pc' = [pc EXCEPT ![t] = FirstStatement(frame[t].op)]
    /\ frame' = [frame EXCEPT ![t] =
                    IF frame[t].op = "set"
                    THEN [op |-> "set", caller |-> frame[t].caller,
                          file_path |-> frame[t].file_path,
                          last_modified |-> frame[t].last_modified,
                          meta |-> frame[t].meta, now |-> clock]
                    ELSE frame[t]]
    /\ UNCHANGED <<image_metadata, max_entries, clock, loaded, seqvars, appvars>>

\* self.conn.lock().unwrap(); set reads Utc::now() right after it.
Lock(t) ==
    /\ pc[t] = "lock"
    /\ mutex = NoThread
    /\ mutex' = t
    /\ pc' = [pc EXCEPT ![t] = FirstStatement(frame[t].op)]
    /\ frame' = [frame EXCEPT ![t] =
                    IF frame[t].op = "set"
                    THEN [op |-> "set", caller |-> frame[t].caller,
                          file_path |-> frame[t].file_path,
                          last_modified |-> frame[t].last_modified,
                          meta |-> frame[t].meta, now |-> clock]
                    ELSE frame[t]]
    /\ UNCHANGED <<image_metadata, max_entries, clock, loaded, seqvars, appvars>>

\* A return that keeps the guard when the operation failed.
ReturnHoldsLockOnError(t, res) ==
    /\ mutex' = IF res = ErrResult THEN mutex ELSE NoThread
    /\ IF frame[t].caller = "rif"
       THEN IF res = ErrResult
            THEN /\ pc' = [pc EXCEPT ![t] = "idle"]
                 /\ frame' = [frame EXCEPT ![t] = NoFrame]
                 /\ loaded' = [status |-> "Err", cause |-> frame[t].op]
            ELSE IF res = NoneResult
            THEN /\ pc' = [pc EXCEPT ![t] = "rif_decode"]
                 /\ frame' = [frame EXCEPT ![t] =
                        Frame("decode", "rif", frame[t].file_path,
                              frame[t].last_modified, frame[t].meta)]
                 /\ UNCHANGED loaded
            ELSE /\ pc' = [pc EXCEPT ![t] = "idle"]
                 /\ frame' = [frame EXCEPT ![t] = NoFrame]
                 /\ loaded' = [status |-> "Ok",
                               width |-> IF res.tag = "Some" THEN res.width
                                         ELSE frame[t].meta.width,
                               height |-> IF res.tag = "Some" THEN res.height
                                          ELSE frame[t].meta.height]
       ELSE /\ pc' = [pc EXCEPT ![t] = "idle"]
            /\ frame' = [frame EXCEPT ![t] = NoFrame]
            /\ UNCHANGED loaded

\* The operation returns res: the guard is dropped; read_image_file goes on
\* with the result, any other caller is done.
Return(t, res) ==
    /\ mutex' = NoThread
    /\ IF frame[t].caller = "rif"
       THEN IF res = ErrResult
            THEN /\ pc' = [pc EXCEPT ![t] = "idle"]
                 /\ frame' = [frame EXCEPT ![t] = NoFrame]
                 /\ loaded' = [status |-> "Err", cause |-> frame[t].op]
            ELSE IF res = NoneResult
            THEN /\ pc' = [pc EXCEPT ![t] = "rif_decode"]
                 /\ frame' = [frame EXCEPT ![t] =
                        Frame("decode", "rif", frame[t].file_path,
                              frame[t].last_modified, frame[t].meta)]
                 /\ UNCHANGED loaded
            ELSE /\ pc' = [pc EXCEPT ![t] = "idle"]
                 /\ frame' = [frame EXCEPT ![t] = NoFrame]
                 /\ loaded' = [status |-> "Ok",
                               width |-> IF res.tag = "Some" THEN res.width
                                         ELSE frame[t].meta.width,
                               height |-> IF res.tag = "Some" THEN res.height
                                          ELSE frame[t].meta.height]
       ELSE /\ pc' = [pc EXCEPT ![t] = "idle"]
            /\ frame' = [frame EXCEPT ![t] = NoFrame]
            /\ UNCHANGED loaded

Goto(t, label) ==
    /\ pc' = [pc EXCEPT ![t] = label]
    /\ UNCHANGED <<mutex, frame, loaded>>

\* get: the SELECT and the comparison of the fingerprints.
GetQuery(t, ok) ==
    /\ pc[t] = "get_query"
    /\ LET result == SelectRow(image_metadata, frame[t].file_path) IN
       IF ~ok THEN Return(t, ErrResult)
       ELSE IF result.tag = "Row"
       THEN IF result.row.last_modified = frame[t].last_modified
            THEN /\ pc' = [pc EXCEPT ![t] = "get_update"]
                 /\ frame' = [frame EXCEPT ![t] =
                        [op |-> "get", caller |-> frame[t].caller,
                         file_path |-> frame[t].file_path,
                         last_modified |-> frame[t].last_modified,
                         meta |-> frame[t].meta, row |-> result.row]]
                 /\ UNCHANGED <<mutex, loaded>>
            ELSE Goto(t, "get_delete")
       ELSE Return(t, NoneResult)
    /\ UNCHANGED <<image_metadata, max_entries, clock, seqvars, appvars>>

\* get: Utc::now() and the UPDATE of last_accessed.
GetUpdate(t, ok) ==
    /\ pc[t] = "get_update"
    /\ IF ok
       THEN /\ image_metadata' =
                  UpdateLastAccessed(image_metadata, clock, frame[t].file_path)
            /\ Return(t, SomeResult(frame[t].row))
       ELSE /\ UNCHANGED image_metadata
            /\ Return(t, ErrResult)
    /\ UNCHANGED <<max_entries, clock, seqvars, appvars>>

\* get: the DELETE of the stale record.
GetDelete(t, ok) ==
    /\ pc[t] = "get_delete"
    /\ IF ok
       THEN /\ image_metadata' = DeleteRow(image_metadata, frame[t].file_path)
            /\ Return(t, NoneResult)
       ELSE /\ UNCHANGED image_metadata
            /\ Return(t, ErrResult)
    /\ UNCHANGED <<max_entries, clock, seqvars, appvars>>

\* set: the INSERT OR REPLACE.
SetInsert(t, ok) ==
    /\ pc[t] = "set_insert"
    /\ IF ok
       THEN /\ image_metadata' =
                  InsertOrReplace(image_metadata, frame[t].file_path,
                                  frame[t].last_modified, frame[t].meta.width,
                                  frame[t].meta.height,
                                  frame[t].meta.file_size, frame[t].now)
            /\ pc' = [pc EXCEPT ![t] = "evict_count"]
            /\ frame' = [frame EXCEPT ![t] =
                   [op |-> "set", caller |-> frame[t].caller,
                    file_path |-> frame[t].file_path,
                    last_modified |-> frame[t].last_modified,
                    meta |-> frame[t].meta, now |-> frame[t].now,
                    replaced |->
                        SelectRow(image_metadata, frame[t].file_path).tag = "Row"]]
            /\ UNCHANGED <<mutex, loaded>>
       ELSE /\ UNCHANGED image_metadata
            /\ Return(t, ErrResult)
    /\ UNCHANGED <<max_entries, clock, seqvars, appvars>>

\* evict_if_needed: the COUNT and the comparison with max_entries.
EvictCount(t, ok) ==
    /\ pc[t] = "evict_count"
    /\ IF ~ok THEN Return(t, ErrResult)
       ELSE IF CountRows(image_metadata) > max_entries
       THEN Goto(t, "evict_delete")
       ELSE Return(t, OkResult)
    /\ UNCHANGED <<image_metadata, max_entries, clock, seqvars, appvars>>

\* evict_if_needed: the DELETE of the least recently used records.  The
\* lock is held since the COUNT, so the count is still the one read there.
EvictDelete(t, ok) ==
    /\ pc[t] = "evict_delete"
    /\ IF ok
       THEN /\ image_metadata' =
                  DeleteLru(image_metadata,
                            CountRows(image_metadata) - max_entries)
            /\ Return(t, OkResult)
       ELSE /\ UNCHANGED image_metadata
            /\ Return(t, ErrResult)
    /\ UNCHANGED <<max_entries, clock, seqvars, appvars>>

StatsCount(t, ok) ==
    /\ pc[t] = "stats_count"
    /\ Return(t, IF ok THEN StatsResult(CountRows(image_metadata), max_entries)
                 ELSE ErrResult)
    /\ UNCHANGED <<image_metadata, max_entries, clock, seqvars, appvars>>

ClearDelete(t, ok) ==
    /\ pc[t] = "clear_delete"
    /\ image_metadata' = IF ok THEN <<>> ELSE image_metadata
    /\ Return(t, IF ok THEN OkResult ELSE ErrResult)
    /\ UNCHANGED <<max_entries, clock, seqvars, appvars>>

FlushCheckpoint(t, ok) ==
    /\ pc[t] = "flush_checkpoint"
    /\ Return(t, IF ok THEN OkResult ELSE ErrResult)
    /\ UNCHANGED <<image_metadata, max_entries, clock, seqvars, appvars>>

\* A read_image_file that decodes the header without asking the cache.
ReadImageFileDecodesFirst(t, path, valid) ==
    /\ pc[t] = "idle"
    /\ IF valid
       THEN /\ pc' = [pc EXCEPT ![t] = "rif_decode"]
            /\ frame' = [frame EXCEPT ![t] =
                   Frame("decode", "rif", path, FileModified(path), FileMeta(path))]
            /\ UNCHANGED loaded
       ELSE /\ loaded' = [status |-> "Err", cause |-> "file"]
            /\ UNCHANGED <<pc, frame>>
    /\ UNCHANGED <<image_metadata, max_entries, clock, mutex, seqvars, appvars>>

\* read_image_file up to its call of get: the checks of the path, the
\* metadata of the file and the fingerprint of its modification time.
ReadImageFile(t, path, valid) ==
    /\ pc[t] = "idle"
    /\ IF valid
       THEN /\ pc' = [pc EXCEPT ![t] = "lock"]
            /\ frame' = [frame EXCEPT ![t] =
                   Frame("get", "rif", path, FileModified(path), FileMeta(path))]
            /\ UNCHANGED loaded
       ELSE /\ loaded' = [status |-> "Err", cause |-> "file"]
            /\ UNCHANGED <<pc, frame>>
    /\ UNCHANGED <<image_metadata, max_entries, clock, mutex, seqvars, appvars>>

\* read_image_file after a miss: the header is decoded and set is called.
Decode(t, ok) ==
    /\ pc[t] = "rif_decode"
    /\ IF ok
       THEN /\ pc' = [pc EXCEPT ![t] = "lock"]
            /\ frame' = [frame EXCEPT ![t] =
                   Frame("set", "rif", frame[t].file_path,
                         frame[t].last_modified,
                         [width |-> FileMeta(frame[t].file_path).width,
                          height |-> FileMeta(frame[t].file_path).height,
                          file_size |-> frame[t].meta.file_size])]
            /\ UNCHANGED loaded
       ELSE /\ pc' = [pc EXCEPT ![t] = "idle"]
            /\ frame' = [frame EXCEPT ![t] = NoFrame]
            /\ loaded' = [status |-> "Err", cause |-> "decode"]
    /\ UNCHANGED <<image_metadata, max_entries, clock, mutex, seqvars, appvars>>

NextThreads ==
    \/ Tick(MaxInstant)
    \/ \E t \in Threads, p \in TwoPaths, f \in Fingerprints :
          Call(t, "get", p, f, OneMeta)
    \/ \E t \in Threads, p \in TwoPaths : Call(t, "set", p, "t1", OneMeta)
    \/ \E t \in Threads, op \in {"get_stats", "clear", "flush"} :
          Call(t, op, "A", "t1", OneMeta)
    \/ \E t \in Threads : Lock(t)
    \/ \E t \in Threads, ok \in BOOLEAN : GetQuery(t, ok)
    \/ \E t \in Threads, ok \in BOOLEAN : GetUpdate(t, ok)
    \/ \E t \in Threads, ok \in BOOLEAN : GetDelete(t, ok)
    \/ \E t \in Threads, ok \in BOOLEAN : SetInsert(t, ok)
    \/ \E t \in Threads, ok \in BOOLEAN : EvictCount(t, ok)
    \/ \E t \in Threads, ok \in BOOLEAN : EvictDelete(t, ok)
    \/ \E t \in Threads, ok \in BOOLEAN : StatsCount(t, ok)
    \/ \E t \in Threads, ok \in BOOLEAN : ClearDelete(t, ok)
    \/ \E t \in Threads, ok \in BOOLEAN : FlushCheckpoint(t, ok)
    \/ \E t \in Threads, p \in TwoPaths, valid \in BOOLEAN :
          ReadImageFile(t, p, valid)
    \/ \E t \in Threads, ok \in BOOLEAN : Decode(t, ok)

SpecThreads == Init /\ [][NextThreads]_vars

\* Image loads of two handlers while another program rewrites file A.
NextFiles ==
    \/ Tick(MaxInstant)
    \/ \E m \in Metas : ModifyFile("A", m)
    \/ \E t \in Threads, p \in TwoPaths, valid \in BOOLEAN :
          ReadImageFile(t, p, valid)
    \/ \E t \in Threads, ok \in BOOLEAN : Decode(t, ok)
    \/ \E t \in Threads : Lock(t)
    \/ \E t \in Threads, ok \in BOOLEAN : GetQuery(t, ok)
    \/ \E t \in Threads, ok \in BOOLEAN : GetUpdate(t, ok)
    \/ \E t \in Threads, ok \in BOOLEAN : GetDelete(t, ok)
    \/ \E t \in Threads, ok \in BOOLEAN : SetInsert(t, ok)
    \/ \E t \in Threads, ok \in BOOLEAN : EvictCount(t, ok)
    \/ \E t \in Threads, ok \in BOOLEAN : EvictDelete(t, ok)

SpecFiles == Init /\ [][NextFiles]_vars

\* The statement at which thread t stands, whichever way it ends.
Statement(t) ==
    \E ok \in BOOLEAN :
        \/ GetQuery(t, ok) \/ GetUpdate(t, ok) \/ GetDelete(t, ok)
        \/ SetInsert(t, ok) \/ EvictCount(t, ok) \/ EvictDelete(t, ok)
        \/ StatsCount(t, ok) \/ ClearDelete(t, ok) \/ FlushCheckpoint(t, ok)

\* Every call of the database returns, and a thread that waits for a lock
\* that stays free takes it.  std::sync::Mutex promises no order among the
\* threads that wait, so nothing more is assumed of lock().
SpecThreadsFair ==
    /\ SpecThreads
    /\ \A t \in Threads : WF_vars(Statement(t)) /\ WF_vars(Lock(t))

(***************************************************************************)
(* exit_app: is_exiting is set, the cache is flushed when get_stats         *)
(* returned Ok, and every window is closed.  The handler of CloseRequested *)
(* lets a window close only when is_exiting is set.                        *)
(***************************************************************************)
ExitStart ==
    /\ exit.pc = "idle"
    /\ is_exiting' = TRUE
    /\ exit' = [exit EXCEPT !.pc = "stats"]
    /\ UNCHANGED <<image_metadata, max_entries, clock, windows, seqvars,
                   threadvars, files,
                   recent_sessions, page>>

\* if let Ok(stats) = state.metadata_cache.get_stats()
ExitStats(fail) ==
    LET out == get_stats(image_metadata, max_entries, fail) IN
    /\ exit.pc = "stats"
    /\ image_metadata' = out.rows
    /\ exit' = [exit EXCEPT !.pc = IF out.res = ErrResult THEN "close"
                                   ELSE "flush",
                            !.stats = out.res.tag]
    /\ UNCHANGED <<max_entries, clock, is_exiting, windows, seqvars,
                   threadvars, files,
                   recent_sessions, page>>

\* state.metadata_cache.flush()?: the error of flush is returned.
ExitFlushOrReturn(fail) ==
    LET out == flush(image_metadata, fail) IN
    /\ exit.pc = "flush"
    /\ image_metadata' = out.rows
    /\ exit' = [exit EXCEPT !.pc = IF out.res = ErrResult THEN "Err"
                                   ELSE "close",
                            !.flush = out.res.tag]
    /\ UNCHANGED <<max_entries, clock, is_exiting, windows, seqvars,
                   threadvars, files,
                   recent_sessions, page>>

\* if let Err(e) = state.metadata_cache.flush() { eprintln!(..) }
ExitFlush(fail) ==
    LET out == flush(image_metadata, fail) IN
    /\ exit.pc = "flush"
    /\ image_metadata' = out.rows
    /\ exit' = [exit EXCEPT !.pc = "close", !.flush = out.res.tag]
    /\ UNCHANGED <<max_entries, clock, is_exiting, windows, seqvars,
                   threadvars, files,
                   recent_sessions, page>>

\* A handler that lets every close request through.
CloseAlwaysAllowed == TRUE

\* The handler of WindowEvent::CloseRequested.
CloseAllowed == is_exiting

\* for (_, window) in app.webview_windows() { let _ = window.close(); }
\* and Ok(()).
ExitClose ==
    /\ exit.pc = "close"
    /\ windows' = IF CloseAllowed THEN "closed" ELSE windows
    /\ exit' = [exit EXCEPT !.pc = "Ok"]
    /\ UNCHANGED <<image_metadata, max_entries, clock, is_exiting, seqvars,
                   threadvars, files,
                   recent_sessions, page>>

\* The commands run while the windows are open; exit_app is called once.
NextExit ==
    \/ windows = "open" /\ Tick(MaxInstant)
    \/ windows = "open" /\ Calls({"A"}, Fingerprints, Metas, FALSE)
    \/ ExitStart
    \/ \E fail \in StatementFailures : ExitStats(fail)
    \/ \E fail \in StatementFailures : ExitFlush(fail)
    \/ ExitClose

SpecExit == Init /\ [][NextExit]_vars

\* The user asks a window to close: WindowEvent::CloseRequested reaches the
\* handler, which returns when is_exiting is set and calls
\* api.prevent_close() otherwise.
CloseRequested ==
    /\ windows = "open"
    /\ last' = <<[op |-> "close_requested", prevented |-> ~CloseAllowed]>>
    /\ windows' = IF CloseAllowed THEN "closed" ELSE windows
    /\ UNCHANGED <<image_metadata, max_entries, clock, written, threadvars,
                   is_exiting, exit, files, recent_sessions, page>>

\* exit_app and the close requests of the user, in one run of the
\* application.
NextClose ==
    \/ NextExit
    \/ CloseRequested

SpecClose == Init /\ [][NextClose]_vars

(***************************************************************************)
(* The list of recent sessions.                                            *)
(***************************************************************************)
\* "Keep only the most recent 10".
MaxRecentSessions == 10

\* A full list of session files, and the paths the commands add: some of
\* the list, some new.
FullList == <<"s1", "s2", "s3", "s4", "s5", "s6", "s7", "s8", "s9", "s10">>
AddedPaths == {"s1", "s5", "s10", "s11", "s12"}

\* An add that does not look for the path in the list.
add_without_retain(sessions, path) ==
    LET inserted == <<path>> \o sessions IN
    IF Len(inserted) > MaxRecentSessions
    THEN SubSeq(inserted, 1, MaxRecentSessions)
    ELSE inserted

\* sessions.retain(|p| p != path); sessions.insert(0, path);
\* if sessions.len() > 10 { sessions.truncate(10) }
add_recent_session(sessions, path) ==
    LET retained == SelectSeq(sessions, LAMBDA p : p # path)
        inserted == <<path>> \o retained
    IN
    IF Len(inserted) > MaxRecentSessions
    THEN SubSeq(inserted, 1, MaxRecentSessions)
    ELSE inserted

\* save_session_dialog, load_session_dialog and load_session_from_path add
\* the path of the session to the list.
AddRecentSession(path) ==
    /\ recent_sessions' = add_recent_session(recent_sessions, path)
    /\ UNCHANGED <<image_metadata, max_entries, clock, seqvars, threadvars,
                   is_exiting, windows, exit, files, page>>

\* A start with the list an earlier run has saved: the first entries of
\* FullList, up to all ten.
InitSessions ==
    /\ InitCache
    /\ recent_sessions \in {SubSeq(FullList, 1, n) : n \in 0..Len(FullList)}
    /\ page = NoPage

NextSessions == \E path \in AddedPaths : AddRecentSession(path)

SpecSessions == InitSessions /\ [][NextSessions]_vars

(***************************************************************************)
(* browse_folder_paginated.  usize is a word of WordBits bits.  An         *)
(* addition that overflows panics in a build with overflow checks and      *)
(* wraps around in a build without them; both builds are possible.         *)
(***************************************************************************)
Word == 2^WordBits
Usize == 0..(Word - 1)

Min(a, b) == IF a < b THEN a ELSE b

\* collect_image_files: the sorted listing of a folder of total_count
\* images, each entry named by its position.
Listing(total_count) == [i \in 1..total_count |-> i - 1]

Panic(offset, limit, total_count) ==
    [outcome |-> "panic", offset |-> offset, limit |-> limit,
     total_count |-> total_count]

\* The body of browse_folder_paginated after the listing; offset and limit
\* are the arguments after unwrap_or.
Paginate(offset, limit, total_count, overflow_checks) ==
    LET sum == offset + limit IN
    IF sum >= Word /\ overflow_checks
    THEN Panic(offset, limit, total_count)
    ELSE
        LET end_index == Min(sum % Word, total_count) IN
        IF offset < total_count /\ offset > end_index
        THEN Panic(offset, limit, total_count)
        ELSE [outcome |-> "Ok",
              entries |-> IF offset < total_count
                          THEN SubSeq(Listing(total_count), offset + 1, end_index)
                          ELSE <<>>,
              total_count |-> total_count,
              has_more |-> end_index < total_count,
              offset |-> offset, limit |-> limit]

\* browse_folder_paginated on a path that is a folder of total_count
\* images (valid), or is none or cannot be read.
BrowseFolderPaginated(valid, offset, limit, total_count, overflow_checks) ==
    /\ page' = IF valid
               THEN Paginate(offset, limit, total_count, overflow_checks)
               ELSE [outcome |-> "Err"]
    /\ UNCHANGED <<image_metadata, max_entries, clock, seqvars, threadvars,
                   is_exiting, windows, exit, files, recent_sessions>>

NextPages ==
    \E valid \in BOOLEAN, offset \in Usize, limit \in Usize,
       total_count \in 0..MaxTotal, overflow_checks \in BOOLEAN :
        BrowseFolderPaginated(valid, offset, limit, total_count,
                              overflow_checks)

SpecPages == Init /\ [][NextPages]_vars

\* A run() that goes on without the cache when new has failed.
RunWithoutCache(fail) ==
    LET out == new(image_metadata, fail) IN
    /\ windows \in {"closed", "none"}
    /\ image_metadata' = out.rows
    /\ last' = <<[op |-> "new", res |-> out.res]>>
    /\ windows' = "open"
    /\ is_exiting' = FALSE
    /\ exit' = NotExiting
    /\ UNCHANGED <<max_entries, clock, written, threadvars, files,
                   recent_sessions, page>>

\* run() in a new process, once the windows of the last one are closed or
\* the last one did not start: MetadataCache::new, and on Err the panic,
\* before AppState and the windows are built; on Ok the AppState with
\* is_exiting false and the windows.  The get_stats of run() is only
\* printed.
Run(fail) ==
    LET out == new(image_metadata, fail) IN
    /\ windows \in {"closed", "none"}
    /\ image_metadata' = out.rows
    /\ last' = <<[op |-> "new", res |-> out.res]>>
    /\ windows' = IF out.res = ErrResult THEN "none" ELSE "open"
    /\ is_exiting' = FALSE
    /\ exit' = NotExiting
    /\ UNCHANGED <<max_entries, clock, written, threadvars, files,
                   recent_sessions, page>>

\* The commands are served while the windows are open; the application is
\* left through exit_app and started again.
NextRun ==
    \/ windows = "open" /\ Tick(MaxInstant)
    \/ windows = "open" /\ Calls({"A"}, {"t1"}, Metas, FALSE)
    \/ windows = "open" /\ ExitStart
    \/ \E fail \in StatementFailures : ExitStats(fail)
    \/ \E fail \in StatementFailures : ExitFlush(fail)
    \/ ExitClose
    \/ \E fail \in StatementFailures : Run(fail)

SpecRun == Init /\ [][NextRun]_vars

(***************************************************************************)
(* Properties.                                                             *)
(***************************************************************************)
CallsOf(op) == {i \in 1..Len(last) : last[i].op = op}

LastAccessed(rows, file_path) == SelectRow(rows, file_path).row.last_accessed

\* C1: whenever a set call has returned, with Ok or with an error, the store
\* holds at most max_entries records, and so get_stats reports an
\* entry_count of at most max_entries.
CapacityBoundAfterAnySet ==
    (last # <<>> /\ last[Len(last)].op = "set") =>
        /\ Len(image_metadata) <= max_entries
        /\ get_stats(image_metadata, max_entries, "none").res.entry_count
               <= max_entries

\* C2: a set(p, f, w, h, s) that returned Ok, immediately followed by a
\* get(p, f) in which no statement fails, makes that get return
\* Some with width w and height h.
HitAfterSet ==
    \A i \in CallsOf("set") :
        (/\ i < Len(last)
         /\ last[i].res = OkResult
         /\ last[i + 1].op = "get"
         /\ last[i + 1].file_path = last[i].file_path
         /\ last[i + 1].last_modified = last[i].last_modified
         /\ last[i + 1].res # ErrResult)
        => /\ last[i + 1].res.tag = "Some"
           /\ last[i + 1].res.width = last[i].width
           /\ last[i + 1].res.height = last[i].height

\* A set at capacity that evicted another record, then the hit.
HitAfterSetWitness ==
    /\ Len(last) = 3
    /\ last[1].op = "set" /\ last[1].res = OkResult /\ last[1].evicted # {}
    /\ last[2].op = "get" /\ last[2].last_modified = last[1].last_modified
    /\ last[2].res.tag = "Some" /\ last[2].res.width = 800

\* C3: after a set(p, t1, ..) that returned Ok, a get(p, t2) with t2 # t1
\* returns None and deletes the record of p, and the get(p, t1) that
\* follows returns None too.
StaleInvalidated ==
    (/\ Len(last) = 3
     /\ last[1].op = "set" /\ last[1].res = OkResult
     /\ last[2].op = "get" /\ last[2].file_path = last[1].file_path
     /\ last[2].last_modified # last[1].last_modified
     /\ last[3].op = "get" /\ last[3].file_path = last[1].file_path
     /\ last[3].last_modified = last[1].last_modified)
    => /\ last[2].found.tag = "Row"
       /\ last[2].res = NoneResult
       /\ last[3].found = NoneResult
       /\ last[3].res = NoneResult
       /\ last[1].file_path \notin StoredPaths(image_metadata)

StaleInvalidatedWitness ==
    /\ Len(last) = 3
    /\ last[1].op = "set" /\ last[1].last_modified = "t1"
    /\ last[2].op = "get" /\ last[2].last_modified = "t2"
    /\ last[2].found.tag = "Row" /\ last[2].res = NoneResult
    /\ last[3].op = "get" /\ last[3].last_modified = "t1"
    /\ last[3].res = NoneResult
    /\ image_metadata # <<>>

\* C4: a get returns Some only from a stored record whose fingerprint is the
\* one passed to the call, never for a path stored with another
\* fingerprint, and the width and height it returns are those written by
\* the latest set on that path that returned Ok.
ReturnedRecordIsCurrent ==
    \A i \in CallsOf("get") :
        /\ last[i].res.tag = "Some" =>
              /\ last[i].found.tag = "Row"
              /\ last[i].found.row.last_modified = last[i].last_modified
              /\ written[last[i].file_path] =
                     [tag |-> "Some", width |-> last[i].res.width,
                      height |-> last[i].res.height]
        /\ (/\ last[i].found.tag = "Row"
            /\ last[i].found.row.last_modified # last[i].last_modified)
           => last[i].res.tag # "Some"

\* C5: a set that returns Ok and leaves more than max_entries records
\* deletes exactly count - max_entries of them, none with a last_accessed
\* above that of a record it keeps; with capacity 2, after A and B were
\* inserted in this order, inserting C leaves exactly B and C.
EvictionSelection ==
    [][\A p \in Paths :
          (/\ last' # last
           /\ last'[1].op = "set" /\ last'[1].file_path = p
           /\ CallSet(p, "t1", OneMeta, "none", FALSE)) =>
            LET before == StoredPaths(image_metadata) \cup {p}
                after == StoredPaths(image_metadata')
                accessed(x) == IF x = p THEN clock
                               ELSE LastAccessed(image_metadata, x)
            IN
            /\ Cardinality(before) > max_entries =>
                  /\ after \subseteq before
                  /\ Cardinality(before \ after) =
                         Cardinality(before) - max_entries
                  /\ \A d \in before \ after, k \in after :
                         accessed(d) <= accessed(k)
            /\ Cardinality(before) <= max_entries => after = before
            /\ (/\ max_entries = 2
                /\ Len(image_metadata) = 2
                /\ image_metadata[1].file_path = "A"
                /\ image_metadata[2].file_path = "B"
                /\ image_metadata[1].last_accessed
                       < image_metadata[2].last_accessed
                /\ image_metadata[2].last_accessed < clock
                /\ p = "C")
               => after = {"B", "C"}]_vars

\* C, inserted after A and B at distinct instants, has evicted A.
EvictionSelectionWitness ==
    /\ max_entries = 2
    /\ Len(last) = 1 /\ last[1].op = "set" /\ last[1].file_path = "C"
    /\ last[1].res = OkResult /\ last[1].evicted = {"A"}
    /\ Len(image_metadata) = 2
    /\ image_metadata[1].file_path = "B"
    /\ image_metadata[2].file_path = "C"
    /\ image_metadata[1].last_accessed = 1
    /\ image_metadata[2].last_accessed = 2

\* The run set(x), set(y), get(x), set(z) on three paths with capacity 2,
\* the get being a hit.
LruRun ==
    /\ max_entries = 2
    /\ Len(last) = 4
    /\ last[3].op = "get" /\ last[3].res.tag = "Some"
    /\ last[4].op = "set" /\ last[4].res = OkResult

\* C6 as claimed: with capacity 2, after set(A), set(B), a hit get(A) and
\* set(C), B is the record evicted and A and C remain.
LruOrderingAsClaimed ==
    LruRun =>
        /\ last[4].evicted = {last[2].file_path}
        /\ StoredPaths(image_metadata) = {last[1].file_path, last[4].file_path}

\* C6 as amended: the same when the hit get(A) read a later instant than
\* set(B); when both read the same instant, A is the record evicted.
LruOrdering ==
    LruRun =>
        IF last[3].at > last[2].at
        THEN /\ last[4].evicted = {last[2].file_path}
             /\ StoredPaths(image_metadata) =
                    {last[1].file_path, last[4].file_path}
        ELSE /\ last[4].evicted = {last[1].file_path}
             /\ StoredPaths(image_metadata) =
                    {last[2].file_path, last[4].file_path}

LruOrderingWitness ==
    /\ LruRun
    /\ last[1].file_path = "A" /\ last[2].file_path = "B"
    /\ last[4].file_path = "C"
    /\ last[3].at > last[2].at
    /\ last[4].evicted = {"B"}

OneRecordPerPath ==
    /\ \A i, j \in RowIndexes(image_metadata) :
          image_metadata[i].file_path = image_metadata[j].file_path => i = j
    /\ \A i \in CallsOf("set") :
          (i = Len(last) /\ last[i].res # ErrResult) =>
              Cardinality(Matching(image_metadata, last[i].file_path)) = 1

OneRecordPerPathWitness ==
    /\ Len(last) = 1 /\ last[1].op = "set" /\ last[1].replaced
    /\ last[1].res = OkResult
    /\ Len(image_metadata) = 2
    /\ Cardinality(Matching(image_metadata, last[1].file_path)) = 1

\* C8: a read_image_file in which get or set returned an error still
\* returns the image: no load ends in an error that came from the cache.
CacheFailureNeverAbortsLoad ==
    loaded.status = "Err" => loaded.cause \notin {"get", "set"}

\* C10: the operations of concurrent callers run one at a time: no two
\* threads are between the lock and the return of an operation, the thread
\* that is there holds the lock, and while it is there the table changes
\* only with a step of its own.
MutualExclusion ==
    /\ \A t \in Threads : Inside(t) => mutex = t
    /\ \A t, u \in Threads : (Inside(t) /\ Inside(u)) => t = u

OwnStatementsOnly ==
    \A t \in Threads :
        (Inside(t) /\ image_metadata' # image_metadata) =>
            /\ pc'[t] # pc[t]
            /\ \A u \in Threads \ {t} : pc'[u] = pc[u]

OneAtATime == []MutualExclusion /\ [][OwnStatementsOnly]_vars

\* One thread is between two statements of its operation while the other
\* waits for the lock.
OneAtATimeWitness ==
    \E t, u \in Threads :
        /\ pc[t] \in {"get_update", "get_delete", "evict_count", "evict_delete"}
        /\ pc[u] = "lock"

\* C11: a set(p, f, w, h, s) that returned Ok, then a flush that returned
\* Ok, then the termination of the process, a new store opened on the same
\* database file and a get(p, f) on it: the get returns Some with width w
\* and height h.
FlushDurability ==
    (/\ Len(last) = 4
     /\ last[1].op = "set" /\ last[1].res = OkResult
     /\ last[2].op = "flush" /\ last[2].res = OkResult
     /\ last[3].op = "new" /\ last[3].res = OkResult
     /\ last[4].op = "get"
     /\ last[4].file_path = last[1].file_path
     /\ last[4].last_modified = last[1].last_modified)
    => /\ last[4].res.tag = "Some"
       /\ last[4].res.width = last[1].width
       /\ last[4].res.height = last[1].height

\* The set replaced a record and evicted another before the flush, and the
\* new store answers with what the set wrote.
FlushDurabilityWitness ==
    /\ Len(last) = 4
    /\ last[1].op = "set" /\ last[1].res = OkResult /\ last[1].evicted # {}
    /\ last[2].op = "flush" /\ last[2].res = OkResult
    /\ last[3].op = "new" /\ last[3].res = OkResult
    /\ last[4].op = "get" /\ last[4].res.tag = "Some"
    /\ last[4].res.width = 800 /\ last[4].res.height = 600

\* C12: a get on a path that has no record leaves the table as it is, every
\* last_accessed and the number of records included, and returns None
\* unless its SELECT fails.
MissLeavesStore ==
    [][\A p \in TwoPaths, f \in Fingerprints, fail \in GetFailures :
          (/\ last' # <<>>
           /\ last'[1].op = "get" /\ last'[1].file_path = p
           /\ p \notin StoredPaths(image_metadata)
           /\ CallGet(p, f, fail)) =>
            /\ image_metadata' = image_metadata
            /\ CountRows(image_metadata') = CountRows(image_metadata)
            /\ fail # "query" => last'[1].res = NoneResult]_vars

\* A miss on A while B is stored.
MissLeavesStoreWitness ==
    /\ Len(last) = 1 /\ last[1].op = "get" /\ last[1].file_path = "A"
    /\ last[1].found = NoneResult /\ last[1].res = NoneResult
    /\ StoredPaths(image_metadata) = {"B"}

\* Two sets of one path, both returning Ok, and then a get of that path.
TwoSets ==
    /\ Len(last) = 3
    /\ last[1].op = "set" /\ last[1].res = OkResult
    /\ last[2].op = "set" /\ last[2].res = OkResult
    /\ last[2].file_path = last[1].file_path
    /\ last[3].op = "get" /\ last[3].file_path = last[1].file_path

SameArguments(a, b) ==
    /\ a.file_path = b.file_path /\ a.last_modified = b.last_modified
    /\ a.width = b.width /\ a.height = b.height /\ a.file_size = b.file_size

\* C13: the second of two sets with the same arguments replaces the record
\* of the path and evicts nothing, so the number of records is the same
\* before and after it; there is one record of the path, and its
\* fingerprint, width, height and file_size are those of the arguments.
IdempotentSet ==
    (TwoSets /\ SameArguments(last[1], last[2])) =>
        /\ last[2].replaced
        /\ last[2].evicted = {}
        /\ last[3].found.tag = "Row"
        /\ SameArguments(last[3].found.row, last[1])
        /\ last[3].last_modified = last[1].last_modified =>
              /\ Cardinality(Matching(image_metadata, last[1].file_path)) = 1
              /\ SameArguments(SelectRow(image_metadata, last[1].file_path).row,
                               last[1])

\* The store is full when the same set is called again at a later instant.
IdempotentSetWitness ==
    /\ TwoSets /\ SameArguments(last[1], last[2])
    /\ last[2].at > last[1].at
    /\ Len(image_metadata) = 2 /\ max_entries = 2
    /\ last[3].res.tag = "Some"

\* C15: a set(p, f2, w2, h2, s2) on a path stored with another fingerprint
\* f1 replaces the record: the get(p, f2) that follows returns Some with w2
\* and h2, and a get with any other fingerprint returns None.
SetReplaces ==
    (TwoSets /\ last[2].last_modified # last[1].last_modified) =>
        /\ last[2].replaced
        /\ last[3].found.tag = "Row"
        /\ SameArguments(last[3].found.row, last[2])
        /\ IF last[3].last_modified = last[2].last_modified
           THEN /\ last[3].res.tag = "Some"
                /\ last[3].res.width = last[2].width
                /\ last[3].res.height = last[2].height
           ELSE last[3].res = NoneResult

\* 640 x 480 stored with t1 is replaced by 800 x 600 with t2.
SetReplacesWitness ==
    /\ TwoSets
    /\ last[1].last_modified = "t1" /\ last[1].width = 640
    /\ last[2].last_modified = "t2" /\ last[2].width = 800
    /\ last[3].last_modified = "t2"
    /\ last[3].res.tag = "Some" /\ last[3].res.width = 800
    /\ last[3].res.height = 600

\* C14: a get that returns Some changes nothing but the last_accessed of
\* the record it looked up: the rows are as many as before and in the same
\* places, the row of the path keeps its fingerprint, width, height and
\* file_size, and every other row is the same.
HitTouchesRecencyOnly ==
    [][\A p \in TwoPaths, f \in Fingerprints, fail \in GetFailures :
          (/\ last' # <<>>
           /\ last'[1].op = "get" /\ last'[1].file_path = p
           /\ last'[1].res.tag = "Some"
           /\ CallGet(p, f, fail)) =>
            /\ Len(image_metadata') = Len(image_metadata)
            /\ \A i \in RowIndexes(image_metadata) :
                  IF image_metadata[i].file_path = p
                  THEN /\ SameArguments(image_metadata'[i], image_metadata[i])
                       /\ image_metadata'[i].last_accessed = clock
                  ELSE image_metadata'[i] = image_metadata[i]]_vars

\* A hit on A at instant 1 while B, last accessed at instant 0, is stored.
HitTouchesRecencyOnlyWitness ==
    /\ Len(last) = 1 /\ last[1].op = "get" /\ last[1].file_path = "A"
    /\ last[1].res.tag = "Some" /\ last[1].at = 1
    /\ last[1].found.row.last_accessed = 0
    /\ Len(image_metadata) = 2
    /\ LastAccessed(image_metadata, "A") = 1
    /\ LastAccessed(image_metadata, "B") = 0

FlushBeforeClose ==
    (exit.pc = "Ok" \/ windows = "closed") => exit.flush # "none"

\* C18: when flush returns an error in exit_app, exit_app still closes
\* the windows and returns Ok: from the failed flush on, the only thing it
\* does is to close them.
FlushFailureNotFatal ==
    /\ (exit.flush = "Err") => exit.pc \in {"close", "Ok"}
    /\ (exit.flush = "Err" /\ exit.pc = "Ok") => windows = "closed"

\* exit_app has returned Ok with the windows closed after a failed flush.
FlushFailureNotFatalWitness ==
    /\ exit.flush = "Err" /\ exit.stats = "Stats"
    /\ exit.pc = "Ok" /\ windows = "closed"
    /\ image_metadata # <<>>

\* C19: a get whose SELECT fails, or whose UPDATE or DELETE fails once a
\* record of the path was found, returns an error; a set whose INSERT OR
\* REPLACE or COUNT fails, or whose eviction DELETE fails when the table
\* is above max_entries, returns an error.
FailuresSurface ==
    [][\A p \in TwoPaths, f \in Fingerprints :
          /\ \A fail \in GetFailures \ {"none"} :
                (/\ last' # <<>>
                 /\ last'[1].op = "get" /\ last'[1].file_path = p
                 /\ last'[1].last_modified = f
                 /\ fail = "execute" => p \in StoredPaths(image_metadata)
                 /\ CallGet(p, f, fail)) =>
                    last'[1].res = ErrResult
          /\ \A m \in Metas, fail \in SetFailures \ {"none"} :
                (/\ last' # <<>>
                 /\ last'[1].op = "set" /\ last'[1].file_path = p
                 /\ last'[1].last_modified = f /\ last'[1].width = m.width
                 /\ fail = "evict" =>
                       Cardinality(StoredPaths(image_metadata) \cup {p})
                           > max_entries
                 /\ CallSet(p, f, m, fail, FALSE)) =>
                    last'[1].res = ErrResult]_vars

\* A set has returned an error because its eviction failed: the record it
\* inserted is stored and the table is above max_entries.
FailuresSurfaceWitness ==
    /\ Len(last) = 1 /\ last[1].op = "set" /\ last[1].res = ErrResult
    /\ last[1].file_path \in StoredPaths(image_metadata)
    /\ ~last[1].replaced
    /\ Len(image_metadata) > max_entries

\* The sets that hold the lock: they may have inserted and not yet evicted.
SetsInFlight == {t \in Threads : Inside(t) /\ frame[t].op = "set"}

StatsWithinBounds ==
    \A t \in Threads :
        pc[t] = "stats_count" =>
            LET stats == StatsResult(CountRows(image_metadata), max_entries) IN
            /\ stats.entry_count >= 0
            /\ stats.entry_count <= max_entries + Cardinality(SetsInFlight)

StatsReadOnly ==
    \A t \in Threads, ok \in BOOLEAN :
        (pc[t] = "stats_count" /\ StatsCount(t, ok)) =>
            image_metadata' = image_metadata

\* C20: get_stats changes no record, and the entry_count it reports is
\* never negative and never above max_entries plus the number of sets in
\* flight; no set is in flight while get_stats holds the lock, so it is
\* never above max_entries.
StatsSnapshot == []StatsWithinBounds /\ [][StatsReadOnly]_vars

\* What a get of every path with every fingerprint would return.
AllMisses ==
    \A p \in Paths, f \in Fingerprints :
        get(image_metadata, p, f, clock, "none").res = NoneResult

ClearedIsEmpty ==
    (last # <<>> /\ last[Len(last)].op = "clear"
        /\ last[Len(last)].res = OkResult) =>
        /\ CountRows(image_metadata) = 0
        /\ get_stats(image_metadata, max_entries, "none").res.entry_count = 0
        /\ AllMisses

EmptyUntilSet ==
    (image_metadata = <<>> /\ image_metadata' # <<>>) =>
        \E i \in 1..Len(last') : last'[i].op = "set"

\* C21: after a clear that returned Ok the table has no record and every
\* get returns None, and the table stays empty until a set is called.
ClearDeletesAll == []ClearedIsEmpty /\ [][EmptyUntilSet]_vars

\* clear has returned Ok after time has passed, and the table is empty.
ClearDeletesAllWitness ==
    /\ Len(last) = 1 /\ last[1].op = "clear" /\ last[1].res = OkResult
    /\ image_metadata = <<>> /\ clock = 1

\* C22: a path that is stored before a step and not after it was removed
\* by a get of this path with another fingerprint, by the eviction of a
\* set, or by clear; no other call removes a record.
RemovedOnlyByInvalidationEvictionClear ==
    [][\A p \in TwoPaths :
          (/\ image_metadata' # image_metadata
           /\ p \in StoredPaths(image_metadata)
           /\ p \notin StoredPaths(image_metadata')) =>
            \E i \in 1..Len(last') :
                \/ /\ last'[i].op = "get" /\ last'[i].file_path = p
                   /\ last'[i].found.tag = "Row"
                   /\ last'[i].found.row.last_modified # last'[i].last_modified
                \/ last'[i].op = "set" /\ p \in last'[i].evicted
                \/ last'[i].op = "clear"]_vars

\* B was evicted by the set of A, and A is stored.
RemovedOnlyWitness ==
    /\ Len(last) = 1 /\ last[1].op = "set" /\ last[1].file_path = "A"
    /\ last[1].evicted = {"B"}
    /\ StoredPaths(image_metadata) = {"A"}

\* C27: a set on a path that is stored, in a table of at most max_entries
\* records, leaves the set of the stored paths as it was, whatever the set
\* returns.
SetOnStoredPathEvictsNothing ==
    [][\A p \in TwoPaths, f \in Fingerprints, m \in Metas,
          fail \in SetFailures :
          (/\ last' # <<>>
           /\ last'[1].op = "set" /\ last'[1].file_path = p
           /\ last'[1].last_modified = f /\ last'[1].width = m.width
           /\ p \in StoredPaths(image_metadata)
           /\ Len(image_metadata) <= max_entries
           /\ CallSet(p, f, m, fail, FALSE)) =>
            /\ StoredPaths(image_metadata') = StoredPaths(image_metadata)
            /\ Len(image_metadata') = Len(image_metadata)]_vars

\* A full table of two records in which the older one was set again.
SetOnStoredPathWitness ==
    /\ Len(last) = 1 /\ last[1].op = "set" /\ last[1].res = OkResult
    /\ last[1].replaced /\ last[1].evicted = {}
    /\ max_entries = 2 /\ Len(image_metadata) = 2
    /\ image_metadata[2].file_path = last[1].file_path
    /\ image_metadata[1].last_accessed < image_metadata[2].last_accessed

\* C29: a get that returns an error leaves the table as it was.
GetErrorChangesNothing ==
    [][\A p \in TwoPaths, f \in Fingerprints, fail \in GetFailures :
          (/\ last' # <<>>
           /\ last'[1].op = "get" /\ last'[1].file_path = p
           /\ last'[1].last_modified = f
           /\ last'[1].res = ErrResult
           /\ CallGet(p, f, fail)) =>
            image_metadata' = image_metadata]_vars

\* The get of a stored path with another fingerprint has returned an
\* error, and the stale record is still stored.
GetErrorChangesNothingWitness ==
    /\ Len(last) = 1 /\ last[1].op = "get" /\ last[1].res = ErrResult
    /\ last[1].found.tag = "Row"
    /\ last[1].found.row.last_modified # last[1].last_modified
    /\ SelectRow(image_metadata, last[1].file_path) = last[1].found

\* C30: a set that returns an error leaves the table as it was: its record
\* is not stored and nothing was evicted.
SetErrorChangesNothing ==
    [][\A p \in TwoPaths, f \in Fingerprints, m \in Metas,
          fail \in SetFailures :
          (/\ last' # <<>>
           /\ last'[1].op = "set" /\ last'[1].file_path = p
           /\ last'[1].last_modified = f /\ last'[1].width = m.width
           /\ last'[1].res = ErrResult
           /\ CallSet(p, f, m, fail, FALSE)) =>
            image_metadata' = image_metadata]_vars

\* The frame of thread t belongs to a read_image_file.
InRif(fr) == fr.op # "none" /\ fr.caller = "rif"

\* read_image_file starts its work with the cache by calling get with the
\* path and the fingerprint of the file.
RifStartsWithGet ==
    \A t \in Threads :
        (pc[t] = "idle" /\ InRif(frame'[t])) =>
            /\ pc'[t] = "lock"
            /\ frame'[t].op = "get"
            /\ frame'[t].last_modified = FileModified(frame'[t].file_path)

\* The header is decoded only after the get of this read_image_file has
\* returned None: no record for the path, or the stale one deleted.
RifDecodesAfterMiss ==
    \A t \in Threads :
        (pc'[t] = "rif_decode" /\ pc[t] # "rif_decode") =>
            /\ InRif(frame[t]) /\ frame[t].op = "get"
            /\ \/ /\ pc[t] = "get_query"
                  /\ SelectRow(image_metadata, frame[t].file_path).tag = "None"
               \/ /\ pc[t] = "get_delete"
                  /\ SelectRow(image_metadata', frame[t].file_path).tag = "None"
            /\ frame'[t].file_path = frame[t].file_path
            /\ frame'[t].last_modified = frame[t].last_modified

\* set is called only from the decode that succeeded, with the path and
\* the fingerprint of the get.
RifSetsAfterDecode ==
    \A t \in Threads :
        (InRif(frame'[t]) /\ frame'[t].op = "set" /\ frame[t].op # "set") =>
            /\ pc[t] = "rif_decode" /\ pc'[t] = "lock"
            /\ frame'[t].file_path = frame[t].file_path
            /\ frame'[t].last_modified = frame[t].last_modified

\* After a hit read_image_file goes on without a decode and without a set.
RifHitEnds ==
    \A t \in Threads :
        (pc[t] = "get_update" /\ InRif(frame[t]) /\ pc'[t] # pc[t]) =>
            pc'[t] = "idle" /\ frame'[t] = NoFrame

\* C23: read_image_file calls get(path, fingerprint) before it decodes the
\* header; it calls set only after that get returned None and the decode
\* succeeded, with the same path and fingerprint; after a hit it neither
\* decodes nor calls set.
ImageLoadProtocol ==
    [][RifStartsWithGet /\ RifDecodesAfterMiss /\ RifSetsAfterDecode
         /\ RifHitEnds]_vars

\* A read_image_file is in the INSERT of its set, after its miss and its
\* decode; an earlier load has returned the image and the other thread is
\* idle.
ImageLoadProtocolWitness ==
    /\ pc["h1"] = "set_insert" /\ InRif(frame["h1"])
    /\ frame["h1"].file_path = "A"
    /\ pc["h2"] = "idle" /\ loaded.status = "Ok"

\* The lock is held by the thread that is between the lock() and the return
\* of its operation, and by no other: it is released on every return.
LockHeldOnlyInside ==
    /\ mutex \in Threads \cup {NoThread}
    /\ \A t \in Threads : mutex = t <=> Inside(t)

\* The lock is taken at the entry of the operation and nowhere else, and it
\* is given up only by the return of the thread that holds it.
AcquiredOnce ==
    \A t \in Threads :
        /\ (mutex' = t /\ mutex # t) => (pc[t] = "lock" /\ mutex = NoThread)
        /\ (mutex = t /\ mutex' # t) => (mutex' = NoThread /\ ~Inside(t)')

\* Whenever a call is pending some thread can take a step: the lock is free
\* for a waiting thread, or the thread that holds it stands at a statement.
NotAllBlocked ==
    (\E t \in Threads : pc[t] = "lock" \/ Inside(t)) =>
        \E t \in Threads : ENABLED (Lock(t) \/ Statement(t))

LockDiscipline ==
    []LockHeldOnlyInside /\ [][AcquiredOnce]_vars /\ []NotAllBlocked

\* C28 as stated: every get, set, stats, clear and flush takes the lock
\* once and releases it on every return, errors included; provided each
\* call of the database returns, every pending call eventually returns and
\* no state is reachable in which all callers are blocked.
EveryPendingCallReturns ==
    /\ LockDiscipline
    /\ \A t \in Threads : (pc[t] = "lock") ~> (pc[t] \notin {"lock"} /\ ~Inside(t))

\* C28: every operation takes the lock once and releases it on every
\* return, errors included; provided each call of the database returns, the
\* call that holds the lock eventually returns, whenever a call waits for
\* the lock some call eventually enters, and no state is reachable in which
\* all callers are blocked.  A call that waits while other calls keep
\* arriving is not promised the lock.
LockReleaseAndProgress ==
    /\ LockDiscipline
    /\ \A t \in Threads : Inside(t) ~> ~Inside(t)
    /\ (\E t \in Threads : pc[t] = "lock") ~> (\E t \in Threads : Inside(t))

\* A set has returned an error and the lock is free again while the other
\* thread waits for it.
LockReleaseAndProgressWitness ==
    /\ pc["h1"] = "lock" /\ pc["h2"] = "idle"
    /\ mutex = NoThread
    /\ loaded = [status |-> "Err", cause |-> "set"]

\* After a MetadataCache::new that failed the application has no window.
NotStarted ==
    (last # <<>> /\ last[Len(last)].op = "new"
        /\ last[Len(last)].res = ErrResult) => windows = "none"

\* From a start that failed the only step is another start: no get, no set
\* and no command of the application runs.
NothingServed ==
    windows = "none" => \E fail \in StatementFailures : Run(fail)

StoredIsAVersion ==
    \A i \in 1..Len(image_metadata) :
        LET r == image_metadata[i] IN
        \E k \in 1..Len(files[r.file_path]) :
            LET version == files[r.file_path][k] IN
            /\ FormatModified(version.modified) = r.last_modified
            /\ version.meta.width = r.width
            /\ version.meta.height = r.height

\* The record a read_image_file has found for its fingerprint has the
\* dimensions of the file as it was when the fingerprint was read.
HitIsTheVersionLookedUp ==
    \A t \in Threads :
        (pc[t] = "get_update" /\ InRif(frame[t])) =>
            /\ frame[t].row.width = frame[t].meta.width
            /\ frame[t].row.height = frame[t].meta.height

\* C25: whatever the interleaving of the modifications of a file with the
\* read_image_file calls, the dimensions stored under (path, fingerprint f)
\* are the dimensions the file had when its fingerprint was f, and a hit
\* never returns the dimensions of another version of the file than the one
\* the fingerprint of the lookup identifies.
CacheFileConsistency == StoredIsAVersion /\ HitIsTheVersionLookedUp

\* The set of a read_image_file that found the path stored, by the other
\* read_image_file that had missed as well, returns with this step.
SecondSetReturns(t) ==
    /\ pc[t] \in {"evict_count", "evict_delete"}
    /\ InRif(frame[t]) /\ frame[t].op = "set" /\ frame[t].replaced
    /\ pc'[t] = "idle"

\* C26: when two concurrent read_image_file calls for one path both miss
\* and both call set, the store ends with exactly one record for the path,
\* the capacity bound holds and no other record is evicted because of the
\* second set.
ConcurrentLoadsOfOnePath ==
    [][\A t \in Threads :
          SecondSetReturns(t) =>
              /\ Cardinality(Matching(image_metadata', frame[t].file_path)) = 1
              /\ CountRows(image_metadata') <= max_entries
              /\ StoredPaths(image_metadata') = StoredPaths(image_metadata)]_vars

\* is_exiting is false until exit_app has started and true from then on.
ExitingSinceExitApp == is_exiting <=> exit.pc # "idle"

\* is_exiting changes only in the first step of exit_app, from false to
\* true.
ExitingSetOnce ==
    is_exiting' # is_exiting => (~is_exiting /\ is_exiting' /\ ExitStart)

\* A close request is prevented exactly when is_exiting is false: then the
\* windows stay open, otherwise they close.
ClosePreventedUnlessExiting ==
    CloseRequested =>
        /\ last'[1].prevented = ~is_exiting
        /\ (windows' = "closed") = is_exiting
        /\ (windows' = "open") = ~is_exiting

\* C31: a CloseRequested event is prevented exactly when is_exiting is
\* false; is_exiting starts false, becomes true only in exit_app and is
\* never reset, so every close request after exit_app has started is
\* allowed and every close request before it is prevented.
CloseGating ==
    /\ []ExitingSinceExitApp
    /\ [][ExitingSetOnce /\ ClosePreventedUnlessExiting]_vars

\* The user has closed the window while exit_app, already started, was
\* still at its get_stats.
CloseGatingWitness ==
    /\ last = <<[op |-> "close_requested", prevented |-> FALSE]>>
    /\ windows = "closed"
    /\ is_exiting /\ exit.pc = "stats"

Entries(list) == {list[i] : i \in 1..Len(list)}
Distinct(list) == Cardinality(Entries(list)) = Len(list)
IndexOf(list, entry) == CHOOSE i \in 1..Len(list) : list[i] = entry

\* The list holds at most 10 paths, each once.
RecentListBounded ==
    Len(recent_sessions) <= 10 /\ Distinct(recent_sessions)

\* What one add does to the list.
AddMovesToFront ==
    \A path \in AddedPaths :
        AddRecentSession(path) =>
            LET before == recent_sessions
                after == recent_sessions'
                kept == Entries(after) \ {path}
            IN
            /\ after[1] = path
            /\ Cardinality({i \in 1..Len(after) : after[i] = path}) = 1
            /\ Len(after) <= 10
            /\ kept \subseteq Entries(before)
            /\ \A e, g \in kept :
                   IndexOf(after, e) < IndexOf(after, g) <=>
                       IndexOf(before, e) < IndexOf(before, g)
            /\ \A e \in Entries(before) \ (kept \cup {path}) :
                   /\ e = before[Len(before)]
                   /\ Cardinality(Entries(before) \cup {path}) > 10

\* C32: after add_recent_session(path) the path is at index 0 and occurs
\* once, the list has at most 10 entries and the other entries keep their
\* relative order, the oldest being dropped when the list would exceed 10;
\* from a list of at most 10 distinct paths this holds after any sequence
\* of adds.
RecentSessionsList == []RecentListBounded /\ [][AddMovesToFront]_vars

\* A new path has been added to the full list, then an old one moved to
\* the front: s10, the oldest, was dropped.
RecentSessionsListWitness ==
    recent_sessions =
        <<"s5", "s11", "s1", "s2", "s3", "s4", "s6", "s7", "s8", "s9">>

\* The entries at positions offset .. min(offset + limit, total_count) of
\* the listing, none when offset >= total_count.
PageOf(offset, limit, total_count) ==
    IF offset >= total_count THEN <<>>
    ELSE [i \in 1..(Min(offset + limit, total_count) - offset) |->
             offset + i - 1]

\* C33: for every offset and limit, also those whose sum exceeds the
\* machine word, and every folder of total_count images,
\* browse_folder_paginated returns without failure the entries at positions
\* offset .. min(offset + limit, total_count) of the sorted listing, none
\* when offset >= total_count, and has_more is true exactly when
\* offset + limit < total_count.
Pagination ==
    page.outcome \in {"Ok", "panic"} =>
        /\ page.outcome = "Ok"
        /\ page.entries = PageOf(page.offset, page.limit, page.total_count)
        /\ page.has_more = (page.offset + page.limit < page.total_count)

====
